---- MODULE Spec2Model ----
(***************************************************************************)
(* A model of VeoVidGen.py: main() and the three functions it sequences,   *)
(* get_google_drive_service(), generate_veo_video() and upload_to_drive(). *)
(* Strings and byte buffers are sequences of one-character strings; the    *)
(* external services (token refresh, consent flow, Gemini, HTTPS, GCS,     *)
(* Drive) answer nondeterministically.                                     *)
(***************************************************************************)
EXTENDS Integers, Sequences, FiniteSets, TLC

VARIABLES
    pc,               \* position of main() and of the function it is in
    apiKey,           \* os.getenv(GEMINI_API_KEY_ENV_VAR)
    argPrompt,        \* args.prompt
    argOutput,        \* args.output_filename
    argFolder,        \* args.folder_id
    tokenFile,        \* content of token.pickle (a credentials object or none)
    credsJson,        \* whether credentials.json exists
    requestsLib,      \* whether `import requests` succeeded
    storageLib,       \* whether `from google.cloud import storage` succeeded
    drive_service,    \* main(): drive_service
    file_uri,         \* generate_veo_video(): file_uri
    g_mime,           \* generate_veo_video(): video_mime_type
    video_bytes,      \* main(): video_bytes
    video_mime_type,  \* main(): video_mime_type
    output_filename,  \* main(): output_filename
    file_metadata,    \* upload_to_drive(): file_metadata
    progress,         \* upload_to_drive(): progress
    reported,         \* the percentages printed by "Uploaded {progress}%"
    response,         \* upload_to_drive(): response
    upload_link,      \* main(): upload_link
    calls,            \* how often each function / external call was made
    printed           \* the status messages printed so far

vars == <<pc, apiKey, argPrompt, argOutput, argFolder, tokenFile, credsJson,
          requestsLib, storageLib, drive_service, file_uri, g_mime,
          video_bytes, video_mime_type, output_filename, file_metadata,
          progress, reported, response, upload_link, calls, printed>>

-----------------------------------------------------------------------------
(* Python values *)

\* Python's None, where a string or a byte buffer may stand
None == <<"None">>

\* bool(x) of a string, a byte buffer or None
Truthy(x) == x /= None /\ x /= <<>>

UpperChars == <<"A","B","C","D","E","F","G","H","I","J","K","L","M",
                "N","O","P","Q","R","S","T","U","V","W","X","Y","Z">>
LowerChars == <<"a","b","c","d","e","f","g","h","i","j","k","l","m",
                "n","o","p","q","r","s","t","u","v","w","x","y","z">>

LowerChar(c) ==
    IF \E i \in 1..Len(UpperChars) : UpperChars[i] = c
    THEN LowerChars[CHOOSE i \in 1..Len(UpperChars) : UpperChars[i] = c]
    ELSE c

\* str.lower()
Lower(s) == [i \in 1..Len(s) |-> LowerChar(s[i])]

\* str.startswith(pre)
StartsWith(s, pre) ==
    Len(pre) <= Len(s) /\ SubSeq(s, 1, Len(pre)) = pre

\* str.endswith(suf)
EndsWith(s, suf) ==
    Len(suf) <= Len(s) /\ SubSeq(s, Len(s) - Len(suf) + 1, Len(s)) = suf

\* s.split('/')[-1]: what follows the last '/', the whole of s when it has none
SplitLast(s) ==
    LET slashes == {i \in 1..Len(s) : s[i] = "/"}
    IN  IF slashes = {} THEN s
        ELSE SubSeq(s, (CHOOSE i \in slashes : \A j \in slashes : j <= i) + 1, Len(s))

\* s.replace(' ', '_')
ReplaceSpaces(s) == [i \in 1..Len(s) |-> IF s[i] = " " THEN "_" ELSE s[i]]

\* s[:n]
Prefix(s, n) == SubSeq(s, 1, IF Len(s) < n THEN Len(s) ELSE n)

-----------------------------------------------------------------------------
(* The inputs of a run *)

\* values of the environment variable: unset, empty, set
ApiKeys == {None, <<>>, <<"k","e","y">>}

\* the positional argument: a prompt longer than the 20 characters the default
\* filename keeps of it
Prompts ==
    { <<"A"," ","c","a","t"," ","r","i","d","i","n","g"," ","a"," ",
        "s","k","a","t","e","b","o","a","r","d">> }

\* -o/--output_filename: absent, empty, without and with a video extension
OutputNames ==
    { None, <<>>,
      <<"c","l","i","p">>,
      <<"c","l","i","p",".","m","o","v">>,
      <<"C","L","I","P",".","M","P","4">> }

\* -f/--folder_id
FolderIds == {None, <<"F">>}

\* time.strftime("%Y%m%d-%H%M%S")
Timestamps ==
    { <<"2","0","2","4","0","1","0","1","-","1","2","0","0","0","0">> }

\* a credentials object: creds.valid, creds.expired, creds.refresh_token;
\* present = FALSE stands for None (no object)
NoCreds == [present |-> FALSE, valid |-> FALSE, expired |-> FALSE, refresh_token |-> FALSE]

\* the objects token.pickle can hold: a token, valid until it expires, with or
\* without a refresh token
CachedCreds ==
    { c \in [present : {TRUE}, valid : BOOLEAN, expired : BOOLEAN, refresh_token : BOOLEAN] :
        c.valid = ~c.expired }

\* what the consent flow returns
FreshCreds == [present |-> TRUE, valid |-> TRUE, expired |-> FALSE, refresh_token |-> TRUE]

\* the Drive service object built from credentials; present = FALSE stands for None
NoService == [present |-> FALSE, creds |-> NoCreds]

Ops == { "get_google_drive_service", "generate_veo_video", "upload_to_drive",
         "token_read", "token_write", "token_remove", "refresh", "flow", "build",
         "model_init", "generate_content", "https_get", "gcs_read",
         "create", "next_chunk", "cleanup" }

Bump(c, S) == [o \in Ops |-> IF o \in S THEN c[o] + 1 ELSE c[o]]

Init ==
    /\ pc = "start"
    /\ apiKey \in ApiKeys
    /\ argPrompt \in Prompts
    /\ argOutput \in OutputNames
    /\ argFolder \in FolderIds
    /\ tokenFile \in CachedCreds \cup {NoCreds}
    /\ credsJson \in BOOLEAN
    /\ requestsLib \in BOOLEAN
    /\ storageLib \in BOOLEAN
    /\ drive_service = NoService
    /\ file_uri = None
    /\ g_mime = None
    /\ video_bytes = None
    /\ video_mime_type = None
    /\ output_filename = None
    /\ file_metadata = [name |-> None, parents |-> None]
    /\ progress = 0
    /\ reported = <<>>
    /\ response = [present |-> FALSE, id |-> None, webViewLink |-> None]
    /\ upload_link = None
    /\ calls = [o \in Ops |-> 0]
    /\ printed = {}

-----------------------------------------------------------------------------
(* main(): the API key *)

\* `if not gemini_api_key`
KeyMissing_NoneOnly(k) == k = None

KeyMissing(k) == ~Truthy(k)

MainStart ==
    /\ pc = "start"
    /\ IF KeyMissing(apiKey)
       THEN /\ pc' = "done"
            /\ printed' = printed \cup {"ERROR: API key not found"}
       ELSE /\ pc' = "auth"
            /\ printed' = printed \cup {"Authenticating with Google Drive"}
    /\ UNCHANGED <<apiKey, argPrompt, argOutput, argFolder, tokenFile, credsJson,
                   requestsLib, storageLib, drive_service, file_uri, g_mime,
                   video_bytes, video_mime_type, output_filename, file_metadata,
                   progress, reported, response, upload_link, calls>>

-----------------------------------------------------------------------------
(* get_google_drive_service() *)

\* `if not creds or not creds.valid`
NeedsAuth(creds) == ~creds.present \/ ~creds.valid

\* `if creds and creds.expired and creds.refresh_token`
CanRefresh(creds) == creds.present /\ creds.expired /\ creds.refresh_token

\* `if not creds: # Re-authenticate`
NeedsReauth(creds) == ~creds.present

\* The whole function on the files it finds and the answers of the token
\* endpoint (refreshOk), the consent flow (flowOk) and build() (buildOk):
\* the service it returns, the token file it leaves, what it called and printed,
\* and whether an exception left it (the consent flow's is not caught).
GetDriveService(tok, cj, refreshOk, flowOk, buildOk) ==
    LET loaded    == tok
        read      == IF tok.present THEN {"token_read"} ELSE {}
        auth      == NeedsAuth(loaded)
        tryRef    == auth /\ CanRefresh(loaded)
        refreshed == IF tryRef
                     THEN IF refreshOk
                          THEN [loaded EXCEPT !.valid = TRUE, !.expired = FALSE]
                          ELSE NoCreds
                     ELSE loaded
        removed   == tryRef /\ ~refreshOk /\ tok.present
        tokA      == IF removed THEN NoCreds ELSE tok
        opsA      == read \cup (IF tryRef THEN {"refresh"} ELSE {})
                          \cup (IF removed THEN {"token_remove"} ELSE {})
        msgA      == IF tryRef /\ ~refreshOk THEN {"Failed to refresh Drive token"} ELSE {}
        reauth    == auth /\ NeedsReauth(refreshed)
    IN  IF reauth /\ ~cj
        THEN [service |-> NoService, token |-> tokA, raised |-> FALSE, ops |-> opsA,
              msgs |-> msgA \cup {"ERROR: credentials file not found"}]
        ELSE IF reauth /\ ~flowOk
        THEN [service |-> NoService, token |-> tokA, raised |-> TRUE,
              ops |-> opsA \cup {"flow"}, msgs |-> msgA]
        ELSE LET creds == IF reauth THEN FreshCreds ELSE refreshed
                 tokB  == IF auth THEN creds ELSE tokA
                 opsB  == opsA \cup (IF reauth THEN {"flow"} ELSE {})
                               \cup (IF auth THEN {"token_write"} ELSE {})
                               \cup {"build"}
             IN  IF buildOk
                 THEN [service |-> [present |-> TRUE, creds |-> creds], token |-> tokB,
                       raised |-> FALSE, ops |-> opsB,
                       msgs |-> msgA \cup {"Drive service created"}]
                 ELSE [service |-> NoService, token |-> tokB, raised |-> FALSE,
                       ops |-> opsB, msgs |-> msgA \cup {"error building the Drive service"}]

\* main(): drive_service = get_google_drive_service(); `if not drive_service: return`
MainAuthenticate ==
    /\ pc = "auth"
    /\ \E refreshOk \in BOOLEAN, flowOk \in BOOLEAN, buildOk \in BOOLEAN :
         LET r == GetDriveService(tokenFile, credsJson, refreshOk, flowOk, buildOk)
         IN  /\ tokenFile' = r.token
             /\ calls' = Bump(calls, r.ops \cup {"get_google_drive_service"})
             /\ drive_service' = r.service
             /\ IF r.raised
                THEN /\ pc' = "crashed"
                     /\ printed' = printed \cup r.msgs
                ELSE IF ~r.service.present
                THEN /\ pc' = "done"
                     /\ printed' = printed \cup r.msgs
                                     \cup {"Failed to authenticate with Google Drive"}
                ELSE /\ pc' = "gen_init"
                     /\ printed' = printed \cup r.msgs
    /\ UNCHANGED <<apiKey, argPrompt, argOutput, argFolder, credsJson,
                   requestsLib, storageLib, file_uri, g_mime,
                   video_bytes, video_mime_type, output_filename, file_metadata,
                   progress, reported, response, upload_link>>

-----------------------------------------------------------------------------
(* generate_veo_video() *)

\* the most content parts a response of the model carries
MaxParts == 2

\* DEFAULT_VIDEO_MIME_TYPE
DEFAULT_VIDEO_MIME_TYPE == <<"v","i","d","e","o","/","m","p","4">>

VideoPrefix == <<"v","i","d","e","o","/">>
HttpsPrefix == <<"h","t","t","p","s",":","/","/">>
GsPrefix == <<"g","s",":","/","/">>

\* a content part: hasattr(part, 'file_data'), part.file_data.mime_type,
\* part.file_data.file_uri
Part(has, mime, uri) == [has_file_data |-> has, mime_type |-> mime, file_uri |-> uri]

\* the parts a response is made of: text, an image, and videos of several
\* content types behind several kinds of URI
SampleParts ==
    { Part(FALSE, <<>>, <<>>),
      Part(TRUE, <<"i","m","a","g","e","/","p","n","g">>, HttpsPrefix \o <<"h","/","i">>),
      Part(TRUE, VideoPrefix \o <<"m","p","4">>, HttpsPrefix \o <<"h","/","v">>),
      Part(TRUE, VideoPrefix \o <<"w","e","b","m">>, GsPrefix \o <<"b","/","k">>),
      Part(TRUE, VideoPrefix \o <<"q","u","i","c","k","t","i","m","e">>,
                 HttpsPrefix \o <<"h","/","q">>),
      Part(TRUE, VideoPrefix, GsPrefix \o <<"b","/","e">>),
      Part(TRUE, VideoPrefix \o <<"*">>, HttpsPrefix \o <<"h","/","w">>),
      Part(TRUE, VideoPrefix \o <<"m","p","4">>, GsPrefix \o <<"b">>),
      Part(TRUE, VideoPrefix \o <<"m","p","4">>, <<"f","t","p",":","/","/","h","/","v">>),
      Part(TRUE, VideoPrefix \o <<"m","p","4">>, <<"h","t","t","p",":","/","/","h">>),
      Part(TRUE, VideoPrefix \o <<"m","p","4">>, <<>>) }

PartSeqs == UNION { [1..n -> SampleParts] : n \in 0..MaxParts }

\* model.generate_content(prompt): a response without candidates, or with the
\* first candidate's content parts
GeminiResponses ==
    { [candidates |-> FALSE, parts |-> <<>>] }
        \cup { [candidates |-> TRUE, parts |-> ps] : ps \in PartSeqs }

\* what a download returns: a body, possibly empty
Payloads == { <<>>, <<"v","i","d">> }

\* `hasattr(part, 'file_data') and part.file_data.mime_type.startswith('video/')`
IsVideoPart(part) == part.has_file_data /\ StartsWith(part.mime_type, VideoPrefix)

\* the `for part in ...parts` loop: the index of the first video part, 0 for none
FirstVideoPart(parts) ==
    LET hits == {i \in 1..Len(parts) : IsVideoPart(parts[i])}
    IN  IF hits = {} THEN 0 ELSE CHOOSE i \in hits : \A j \in hits : i <= j

\* `file_uri.startswith("gs://")`
IsGcsUri(uri) == StartsWith(uri, GsPrefix)

\* `file_uri.startswith("https://")`
IsHttpsUri_AnythingButGcs(uri) == ~IsGcsUri(uri)

IsHttpsUri(uri) == StartsWith(uri, HttpsPrefix)

\* `bucket_name, blob_name = file_uri[5:].split("/", 1)`: the unpacking needs
\* the two pieces that only a '/' in the rest gives
GcsParseOk(uri) ==
    \E i \in (Len(GsPrefix) + 1)..Len(uri) : uri[i] = "/"

\* `return None, None` after printing msgs
GenFailWith(msgs) ==
    /\ printed' = printed \cup msgs
    /\ video_bytes' = None
    /\ video_mime_type' = None
    /\ file_uri' = None
    /\ g_mime' = None
    /\ pc' = "after_gen"

GenFail(msg) == GenFailWith({msg})

\* `if video_bytes: return video_bytes, video_mime_type` and its else
GenReturn_AnyBytes(body) ==
    /\ printed' = printed \cup {"Successfully downloaded video"}
    /\ video_bytes' = body
    /\ video_mime_type' = g_mime
    /\ file_uri' = None
    /\ g_mime' = None
    /\ pc' = "after_gen"

GenReturn(body) ==
    IF Truthy(body)
    THEN /\ printed' = printed \cup {"Successfully downloaded video"}
         /\ video_bytes' = body
         /\ video_mime_type' = g_mime
         /\ file_uri' = None
         /\ g_mime' = None
         /\ pc' = "after_gen"
    ELSE GenFailWith({"Successfully downloaded video",
                      "ERROR: Video bytes could not be retrieved"})

\* genai.configure and genai.GenerativeModel(VEO_MODEL_NAME)
GenInit ==
    /\ pc = "gen_init"
    /\ \E ok \in BOOLEAN :
         IF ok
         THEN /\ pc' = "gen_request"
              /\ printed' = printed \cup {"Sending request to Gemini API"}
              /\ UNCHANGED <<video_bytes, video_mime_type, file_uri, g_mime>>
         ELSE GenFail("ERROR: Could not initialize Veo model")
    /\ calls' = Bump(calls, {"generate_veo_video", "model_init"})
    /\ UNCHANGED <<apiKey, argPrompt, argOutput, argFolder, tokenFile, credsJson,
                   requestsLib, storageLib, drive_service, output_filename,
                   file_metadata, progress, reported, response, upload_link>>

\* model.generate_content(prompt), the inspection of the response and the
\* search for the video part
GenRequest ==
    /\ pc = "gen_request"
    /\ \E raised \in BOOLEAN, resp \in GeminiResponses :
         IF raised
         THEN GenFail("An error occurred during Veo video generation or download")
         ELSE IF ~resp.candidates \/ resp.parts = <<>>
         THEN GenFail("ERROR: No valid candidates or content parts")
         ELSE IF FirstVideoPart(resp.parts) = 0
         THEN GenFail("ERROR: Could not find video data")
         ELSE LET video_part == resp.parts[FirstVideoPart(resp.parts)]
              IN  /\ file_uri' = video_part.file_uri
                  /\ g_mime' = IF Truthy(video_part.mime_type)
                               THEN video_part.mime_type
                               ELSE DEFAULT_VIDEO_MIME_TYPE
                  /\ printed' = printed \cup {"Video generation apparently successful"}
                  /\ pc' = "gen_download"
                  /\ UNCHANGED <<video_bytes, video_mime_type>>
    /\ calls' = Bump(calls, {"generate_content"})
    /\ UNCHANGED <<apiKey, argPrompt, argOutput, argFolder, tokenFile, credsJson,
                   requestsLib, storageLib, drive_service, output_filename,
                   file_metadata, progress, reported, response, upload_link>>

\* Scenario 1: requests.get(file_uri, stream=True, timeout=300)
GenDownloadHttps ==
    /\ pc = "gen_download"
    /\ IsHttpsUri(file_uri)
    /\ IF ~requestsLib
       THEN /\ GenFail("ERROR: The 'requests' library is required")
            /\ UNCHANGED calls
       ELSE /\ calls' = Bump(calls, {"https_get"})
            /\ \E failed \in BOOLEAN, body \in Payloads :
                 IF failed
                 THEN GenFail("ERROR: Failed to download video from HTTPS URI")
                 ELSE GenReturn(body)
    /\ UNCHANGED <<apiKey, argPrompt, argOutput, argFolder, tokenFile, credsJson,
                   requestsLib, storageLib, drive_service, output_filename,
                   file_metadata, progress, reported, response, upload_link>>

\* Scenario 2: storage.Client(), the parse of the URI, blob.download_as_bytes
GenDownloadGcs ==
    /\ pc = "gen_download"
    /\ ~IsHttpsUri(file_uri)
    /\ IsGcsUri(file_uri)
    /\ IF ~storageLib
       THEN /\ GenFail("ERROR: The 'google-cloud-storage' library is required")
            /\ UNCHANGED calls
       ELSE \E clientOk \in BOOLEAN, failed \in BOOLEAN, body \in Payloads :
              IF ~clientOk \/ ~GcsParseOk(file_uri)
              THEN /\ GenFail("ERROR: Failed to download video from GCS URI")
                   /\ UNCHANGED calls
              ELSE /\ calls' = Bump(calls, {"gcs_read"})
                   /\ IF failed
                      THEN GenFail("ERROR: Failed to download video from GCS URI")
                      ELSE GenReturn(body)
    /\ UNCHANGED <<apiKey, argPrompt, argOutput, argFolder, tokenFile, credsJson,
                   requestsLib, storageLib, drive_service, output_filename,
                   file_metadata, progress, reported, response, upload_link>>

\* the final else: neither scheme
GenUnsupportedScheme ==
    /\ pc = "gen_download"
    /\ ~IsHttpsUri(file_uri)
    /\ ~IsGcsUri(file_uri)
    /\ GenFail("ERROR: Unrecognized or unsupported file URI scheme")
    /\ UNCHANGED <<apiKey, argPrompt, argOutput, argFolder, tokenFile, credsJson,
                   requestsLib, storageLib, drive_service, output_filename,
                   file_metadata, progress, reported, response, upload_link, calls>>

-----------------------------------------------------------------------------
(* main(): the output filename *)

\* args.prompt[:20]
PromptPrefixLen == 20

\* known_video_extensions
known_video_extensions ==
    { <<".","m","p","4">>, <<".","m","o","v">>, <<".","a","v","i">>,
      <<".","w","e","b","m">>, <<".","m","k","v">> }

Mp4 == <<"m","p","4">>
FilePrefix == <<"v","e","o","_","v","i","d","e","o","_">>

\* `output_filename.lower().endswith(known_video_extensions)`
HasKnownExtension(name) ==
    \E e \in known_video_extensions : EndsWith(Lower(name), e)

\* the branch for an explicit name
DeriveExplicit(name, mime) ==
    IF HasKnownExtension(name)
    THEN name
    ELSE LET inferred_ext == SplitLast(mime)
         IN  IF Truthy(inferred_ext) /\ inferred_ext /= <<"*">>
             THEN name \o <<".">> \o inferred_ext
             ELSE name \o <<".">> \o Mp4

\* the branch without a name
DeriveDefault(prompt, mime, timestamp) ==
    LET ext == IF Truthy(mime) /\ SplitLast(mime) /= <<"*">>
               THEN SplitLast(mime)
               ELSE Mp4
    IN  FilePrefix \o ReplaceSpaces(Prefix(prompt, PromptPrefixLen))
            \o <<"_">> \o timestamp \o <<".">> \o ext

\* `if args.output_filename: ... else: ...`
DeriveFilename(name, prompt, mime, timestamp) ==
    IF Truthy(name)
    THEN DeriveExplicit(name, mime)
    ELSE DeriveDefault(prompt, mime, timestamp)

\* `if not video_bytes or not video_mime_type`
GenerationFailed_Never(bytes, mime) == FALSE

GenerationFailed(bytes, mime) == ~Truthy(bytes) \/ ~Truthy(mime)

\* main() after generate_veo_video() returned: the exit on failure, else the
\* filename
MainAfterGenerate ==
    /\ pc = "after_gen"
    /\ IF GenerationFailed(video_bytes, video_mime_type)
       THEN /\ pc' = "done"
            /\ printed' = printed \cup {"Video generation or download failed"}
            /\ UNCHANGED output_filename
       ELSE /\ pc' = "upload_begin"
            /\ \E timestamp \in Timestamps :
                 output_filename' =
                     DeriveFilename(argOutput, argPrompt, video_mime_type, timestamp)
            /\ UNCHANGED printed
    /\ UNCHANGED <<apiKey, argPrompt, argOutput, argFolder, tokenFile, credsJson,
                   requestsLib, storageLib, drive_service, file_uri, g_mime,
                   video_bytes, video_mime_type, file_metadata,
                   progress, reported, response, upload_link, calls>>

-----------------------------------------------------------------------------
(* upload_to_drive() *)

\* the most calls of request.next_chunk() an upload takes
MaxChunks == 3

\* status.progress() is one of 0/ProgressDenom .. ProgressDenom/ProgressDenom
ProgressDenom == 3

NoResponse == [present |-> FALSE, id |-> None, webViewLink |-> None]

\* the body of the finished upload: a dict with or without 'id', and without
\* 'webViewLink', with an empty one or with a link
DriveResponses ==
    { [present |-> TRUE, id |-> i, webViewLink |-> l] :
        i \in {None, <<"i","d","1">>},
        l \in {None, <<>>, <<"l","i","n","k">>} }

\* status: None (0 stands for it) or a progress k/ProgressDenom (k + 1 stands for it)
Statuses == 0..(ProgressDenom + 1)

\* `int(status.progress() * 100)`
Percent(k) == (k * 100) \div ProgressDenom

\* `if new_progress > progress`
ProgressIncreased_OrEqual(new_progress, old) == new_progress >= old

ProgressIncreased(new_progress, old) == new_progress > old

\* `if status:` and the report of a higher percentage
ReportProgress(status) ==
    IF status /= 0 /\ ProgressIncreased(Percent(status - 1), progress)
    THEN /\ progress' = Percent(status - 1)
         /\ reported' = Append(reported, Percent(status - 1))
    ELSE UNCHANGED <<progress, reported>>

\* upload_to_drive() returns None after printing msg
UploadFail(msg) ==
    /\ printed' = printed \cup {msg}
    /\ upload_link' = None
    /\ pc' = "main_finish"

\* `except Exception as e_chunk: ... return None`
ChunkError_Continue ==
    /\ printed' = printed \cup {"Error during chunk upload"}
    /\ UNCHANGED <<upload_link, pc>>

ChunkError == UploadFail("Error during chunk upload")

\* `file_link = response.get('webViewLink')` ... `return file_link`
ReturnedLink_NeedsId(resp) ==
    IF resp.id = None THEN None ELSE resp.webViewLink

ReturnedLink(resp) == resp.webViewLink

\* the service check, file_metadata, MediaIoUpload and files().create(...)
UploadBegin ==
    /\ pc = "upload_begin"
    /\ calls' = Bump(calls, {"upload_to_drive"}
                            \cup (IF drive_service.present THEN {"create"} ELSE {}))
    /\ IF ~drive_service.present
       THEN /\ UploadFail("Drive service not available")
            /\ UNCHANGED <<file_metadata, progress, reported, response>>
       ELSE /\ file_metadata' =
                   [name |-> output_filename,
                    parents |-> IF Truthy(argFolder) THEN <<argFolder>> ELSE None]
            /\ \E createOk \in BOOLEAN :
                 IF createOk
                 THEN /\ response' = NoResponse
                      /\ progress' = 0
                      /\ printed' = printed \cup {"Uploading", "Starting upload"}
                      /\ pc' = "upload_chunk"
                      /\ UNCHANGED <<reported, upload_link>>
                 ELSE /\ printed' = printed
                            \cup {"Uploading", "An error occurred uploading to Drive"}
                      /\ upload_link' = None
                      /\ pc' = "main_finish"
                      /\ UNCHANGED <<progress, reported, response>>
    /\ UNCHANGED <<apiKey, argPrompt, argOutput, argFolder, tokenFile, credsJson,
                   requestsLib, storageLib, drive_service, file_uri, g_mime,
                   video_bytes, video_mime_type, output_filename>>

\* one pass of `while response is None`: request.next_chunk() raises, or
\* returns (status, None), or returns (status, response)
UploadNextChunk ==
    /\ pc = "upload_chunk"
    /\ ~response.present
    /\ calls["next_chunk"] < MaxChunks
    /\ calls' = Bump(calls, {"next_chunk"})
    /\ \/ /\ ChunkError
          /\ UNCHANGED <<progress, reported, response>>
       \/ /\ calls["next_chunk"] + 1 < MaxChunks
          /\ \E status \in Statuses : ReportProgress(status)
          /\ UNCHANGED <<response, upload_link, pc, printed>>
       \/ /\ \E status \in Statuses : ReportProgress(status)
          /\ \E resp \in DriveResponses : response' = resp
          /\ pc' = "upload_finish"
          /\ UNCHANGED <<upload_link, printed>>
    /\ UNCHANGED <<apiKey, argPrompt, argOutput, argFolder, tokenFile, credsJson,
                   requestsLib, storageLib, drive_service, file_uri, g_mime,
                   video_bytes, video_mime_type, output_filename, file_metadata>>

\* after the loop: the id and the link are read and printed, the link returned
UploadFinish ==
    /\ pc = "upload_finish"
    /\ printed' = printed \cup {"SUCCESS: File uploaded to Google Drive"}
    /\ upload_link' = ReturnedLink(response)
    /\ pc' = "main_finish"
    /\ UNCHANGED <<apiKey, argPrompt, argOutput, argFolder, tokenFile, credsJson,
                   requestsLib, storageLib, drive_service, file_uri, g_mime,
                   video_bytes, video_mime_type, output_filename, file_metadata,
                   progress, reported, response, calls>>

\* main(): `if upload_link: ... else: ...`
MainFinish ==
    /\ pc = "main_finish"
    /\ printed' = printed \cup
          (IF Truthy(upload_link)
           THEN {"Process complete! Video available"}
           ELSE {"Process completed, but upload to Drive may have failed"})
    /\ pc' = "done"
    /\ UNCHANGED <<apiKey, argPrompt, argOutput, argFolder, tokenFile, credsJson,
                   requestsLib, storageLib, drive_service, file_uri, g_mime,
                   video_bytes, video_mime_type, output_filename, file_metadata,
                   progress, reported, response, upload_link, calls>>

-----------------------------------------------------------------------------

Next ==
    \/ MainStart
    \/ MainAuthenticate
    \/ GenInit
    \/ GenRequest
    \/ GenDownloadHttps
    \/ GenDownloadGcs
    \/ GenUnsupportedScheme
    \/ MainAfterGenerate
    \/ UploadBegin
    \/ UploadNextChunk
    \/ UploadFinish
    \/ MainFinish

Spec == Init /\ [][Next]_vars

-----------------------------------------------------------------------------
(* The properties *)

MissingKeyMsg == "ERROR: API key not found"
UnsupportedMsg == "ERROR: Unrecognized or unsupported file URI scheme"
ChunkErrorMsg == "Error during chunk upload"
UploadSuccessMsg == "SUCCESS: File uploaded to Google Drive"
MayHaveFailedMsg == "Process completed, but upload to Drive may have failed"
ProcessCompleteMsg == "Process complete! Video available"

\* C1: with the API key unset or empty, main() stops at once: no function of
\* the pipeline and no network or token-file call is ever made, and the run
\* ends with the missing-key message.
C1_MissingKeyStopsBeforeAnyCall ==
    (apiKey = None \/ apiKey = <<>>) =>
        /\ \A o \in Ops : calls[o] = 0
        /\ pc \in {"start", "done"}
        /\ ~drive_service.present
        /\ pc = "done" => MissingKeyMsg \in printed

C1_Witness ==
    /\ apiKey = <<>>
    /\ pc = "done"
    /\ MissingKeyMsg \in printed

\* C2: the phases run in the order credentials, generation, upload, each at
\* most once: generation only with a session in hand, upload only with
\* non-empty bytes and a content type in hand, and nothing after a failed phase.
C2_PhasesInOrderUploadOnce ==
    /\ calls["get_google_drive_service"] <= 1
    /\ calls["generate_veo_video"] <= 1
    /\ calls["upload_to_drive"] <= 1
    /\ calls["generate_veo_video"] > 0 =>
          calls["get_google_drive_service"] = 1 /\ drive_service.present
    /\ calls["upload_to_drive"] > 0 =>
          /\ calls["generate_veo_video"] = 1
          /\ video_bytes /= None /\ video_bytes /= <<>>
          /\ video_mime_type /= None /\ video_mime_type /= <<>>
    /\ (pc = "crashed" \/ "Failed to authenticate with Google Drive" \in printed) =>
          calls["generate_veo_video"] = 0 /\ calls["upload_to_drive"] = 0
    /\ "Video generation or download failed" \in printed =>
          calls["upload_to_drive"] = 0

C2_Witness ==
    /\ pc = "done"
    /\ calls["upload_to_drive"] = 1
    /\ upload_link /= None

\* the messages generate_veo_video() prints where it returns (None, None)
GenErrorMsgs ==
    { "ERROR: Could not initialize Veo model",
      "An error occurred during Veo video generation or download",
      "ERROR: No valid candidates or content parts",
      "ERROR: Could not find video data",
      "ERROR: Unrecognized or unsupported file URI scheme",
      "ERROR: The 'requests' library is required",
      "ERROR: Failed to download video from HTTPS URI",
      "ERROR: The 'google-cloud-storage' library is required",
      "ERROR: Failed to download video from GCS URI",
      "ERROR: Video bytes could not be retrieved" }

\* the failure kind a message stands for: the phase that failed
FailureKind(msg) ==
    CASE msg = "ERROR: Could not initialize Veo model" -> "ModelInitError"
      [] msg = "An error occurred during Veo video generation or download"
            -> "GenerationRequestError"
      [] msg = "ERROR: No valid candidates or content parts" -> "EmptyResponseError"
      [] msg = "ERROR: Could not find video data" -> "NoVideoPartError"
      [] msg = "ERROR: Unrecognized or unsupported file URI scheme"
            -> "UnsupportedURISchemeError"
      [] OTHER -> "DownloadError"

GenReturned == calls["generate_veo_video"] = 1 /\ pc \in
    {"after_gen", "upload_begin", "upload_chunk", "upload_finish", "main_finish", "done"}

GenSucceeded ==
    /\ video_bytes /= None /\ video_bytes /= <<>>
    /\ video_mime_type /= None
    /\ Len(video_mime_type) >= 6
    /\ SubSeq(video_mime_type, 1, 6) = <<"v","i","d","e","o","/">>
    /\ printed \cap GenErrorMsgs = {}

GenFailedWith(kind) ==
    /\ video_bytes = None
    /\ video_mime_type = None
    /\ \E m \in printed \cap GenErrorMsgs :
          /\ printed \cap GenErrorMsgs = {m}
          /\ FailureKind(m) = kind

C4_UnsupportedSchemeNoDownload ==
    /\ [](UnsupportedMsg \in printed =>
            /\ calls["https_get"] = 0
            /\ calls["gcs_read"] = 0
            /\ video_bytes = None)
    /\ [][(/\ pc = "gen_download"
           /\ ~(Len(file_uri) >= 8 /\ SubSeq(file_uri, 1, 8) = HttpsPrefix)
           /\ ~(Len(file_uri) >= 5 /\ SubSeq(file_uri, 1, 5) = GsPrefix))
          => (/\ pc' = "after_gen"
              /\ UnsupportedMsg \in printed'
              /\ video_bytes' = None
              /\ video_mime_type' = None
              /\ calls' = calls)]_vars

C4_Witness ==
    /\ pc = "after_gen"
    /\ UnsupportedMsg \in printed
    /\ calls["generate_content"] = 1

\* C5: an error raised by the transfer of chunk k ends the upload: no later
\* call of next_chunk() (no retry, no further chunk), no link, no response, no
\* cleanup call.
C5_ChunkErrorAborts ==
    /\ [](ChunkErrorMsg \in printed =>
            /\ pc \in {"main_finish", "done"}
            /\ upload_link = None
            /\ ~response.present
            /\ UploadSuccessMsg \notin printed
            /\ calls["cleanup"] = 0)
    /\ [][(ChunkErrorMsg \in printed') =>
            (/\ ChunkErrorMsg \in printed => calls'["next_chunk"] = calls["next_chunk"]
             /\ pc' \in {"main_finish", "done"})]_vars

C5_Witness ==
    /\ ChunkErrorMsg \in printed
    /\ calls["next_chunk"] = 2
    /\ MaxChunks > 2
    /\ pc = "done"
    /\ MayHaveFailedMsg \in printed

\* C6: the session is never built from a cached token that is not valid: a
\* token that is absent, expired without a refresh token, or whose refresh
\* failed leads to the consent flow, and without credentials.json to no session.
C6_InvalidTokenNeverBuildsSession ==
    calls["get_google_drive_service"] = 1 =>
        /\ drive_service.present => drive_service.creds.valid
        /\ (~credsJson /\ ~tokenFile.valid) => ~drive_service.present

\* C7: the filename main() passes to upload_to_drive() ends in one of .mp4,
\* .mov, .avi, .webm, .mkv.
C7_UploadedNameHasVideoExtension ==
    calls["upload_to_drive"] > 0 =>
        \E e \in { <<".","m","p","4">>, <<".","m","o","v">>, <<".","a","v","i">>,
                   <<".","w","e","b","m">>, <<".","m","k","v">> } :
            /\ Len(e) <= Len(file_metadata.name)
            /\ Lower(SubSeq(file_metadata.name,
                            Len(file_metadata.name) - Len(e) + 1,
                            Len(file_metadata.name))) = e

\* C8: deriving the filename again from the derived filename of an explicit
\* name, with the same content type, changes nothing.
C8_DeriveIdempotent ==
    (pc = "upload_begin" /\ argOutput /= None /\ argOutput /= <<>>) =>
        DeriveExplicit(output_filename, video_mime_type) = output_filename

\* C9 as claimed: a finished upload whose response lacks the id or the link
\* returns no link and reports no success.
C9_MissingFieldFailsUpload ==
    (pc \in {"main_finish", "done"} /\ response.present
        /\ (response.id = None \/ response.webViewLink = None)) =>
        /\ upload_link = None
        /\ UploadSuccessMsg \notin printed
        /\ ProcessCompleteMsg \notin printed

\* C9 amended: a finished upload returns the response's view link, None when the
\* response has none, whether or not the response has an id, and prints its
\* success message either way; main() then reports that the upload may have
\* failed exactly when that link is None or empty, and the link otherwise.
C9_LinkAloneDecides ==
    (pc \in {"main_finish", "done"} /\ response.present) =>
        /\ upload_link = response.webViewLink
        /\ UploadSuccessMsg \in printed
        /\ pc = "done" =>
              /\ (response.webViewLink \in {None, <<>>}) <=> (MayHaveFailedMsg \in printed)
              /\ (response.webViewLink \notin {None, <<>>}) <=> (ProcessCompleteMsg \in printed)

C9_Witness ==
    /\ pc = "done"
    /\ response.present
    /\ response.id = None
    /\ response.webViewLink \notin {None, <<>>}
    /\ upload_link = response.webViewLink
    /\ ProcessCompleteMsg \in printed

StrictlyIncreasing(seq) ==
    \A i \in 1..Len(seq), j \in 1..Len(seq) : i < j => seq[i] < seq[j]

\* C10: the percentages reported during an upload are strictly increasing and
\* above 0, so none is reported twice; a percentage is reported only when it
\* exceeds the last one reported, which progress holds.
C10_ProgressReportedOnce ==
    /\ [](/\ StrictlyIncreasing(reported)
          /\ \A i \in 1..Len(reported) : reported[i] > 0
          /\ progress = IF reported = <<>> THEN 0 ELSE reported[Len(reported)])
    /\ [][reported' /= reported =>
            (/\ Len(reported') = Len(reported) + 1
             /\ SubSeq(reported', 1, Len(reported)) = reported
             /\ reported'[Len(reported')] > progress
             /\ progress' = reported'[Len(reported')])]_vars

C10_Witness ==
    /\ pc = "done"
    /\ Len(reported) >= 2
    /\ calls["next_chunk"] = 3

====
